---- MODULE Spec2Model ----
(***************************************************************************)
(* Model of the soulstruct-blender add-on: the installer script            *)
(* (install_addon.py), the HKX map collision export operators              *)
(* (export_hkx_map_collision.py) and the MSB part operator polls           *)
(* (msb/operators/parts/base.py).                                          *)
(*                                                                         *)
(* Strings whose characters the code inspects (object names, file names,   *)
(* stems) are sequences of one-character strings; paths handled by pathlib *)
(* are sequences of path components.                                       *)
(***************************************************************************)
EXTENDS Integers, Sequences, FiniteSets, TLC

VARIABLES
    objects,           \* Blender scene: object id -> name, type, parent, custom properties
    selected_objects,  \* context.selected_objects, a list of object ids
    settings,          \* the Soulstruct global settings of the scene
    game_enums,        \* context.scene.soulstruct_game_enums: enum name -> selected value
    disk,              \* files on disk: loose HKX files, HKXBHD/HKXBDT Binders, MSB files, saved settings
    msbs,              \* MSB objects held in memory (get_cached_file), by MSB stem
    lastOp,            \* the last operator call (poll or execute) or user change, with its outcome
    runs,              \* number of execute() calls made so far
    fs,                \* installer: directory path -> content tag, for the directories that exist
    lastInstall,       \* installer: the last install()/main() call, its outcome and its filesystem operations
    binder,            \* find_binder_hkx_entry: the Binder's entry list
    lastFind           \* find_binder_hkx_entry: the last call, its arguments and its outcome

vars == <<objects, selected_objects, settings, game_enums, disk, msbs, lastOp, runs, fs, lastInstall, binder, lastFind>>

sceneVars == <<objects, selected_objects, settings, game_enums, disk, msbs, lastOp, runs>>

installVars == <<fs, lastInstall>>
binderVars == <<binder, lastFind>>

----------------------------------------------------------------------------
(* Generic helpers. *)

Last(s) == s[Len(s)]

IsPrefix(p, s) == Len(p) <= Len(s) /\ SubSeq(s, 1, Len(p)) = p

Range(s) == {s[i] : i \in 1..Len(s)}

\* The scene variables while no operator runs.
InitSceneIdle ==
    /\ objects = <<>>
    /\ selected_objects = <<>>
    /\ settings = [game |-> ""]
    /\ game_enums = <<>>
    /\ disk = <<>>
    /\ msbs = <<>>
    /\ lastOp = [kind |-> "none"]
    /\ runs = 0

----------------------------------------------------------------------------
(* install_addon.py *)

ScriptsName == "scripts"

\* pathlib.Path(p).name: the last path component, "" for an empty path.
PathName(p) == IF Len(p) = 0 THEN "" ELSE Last(p)

FlagSoulstruct == <<"--updateSoulstruct">>
FlagThirdParty == <<"--updateThirdParty">>

ModSoulstruct == <<"modules", "soulstruct">>
ModOo2core == <<"modules", "soulstruct", "oo2core_6_win64.dll">>
ModHavok == <<"modules", "soulstruct_havok">>
ModColorama == <<"modules", "colorama">>
ModScipy == <<"modules", "scipy">>
ModScipyLibs == <<"modules", "scipy.libs">>
AddonDir == <<"addons", "io_soulstruct">>

ThirdPartyPackages == <<"colorama", "scipy", "scipy.libs">>
ThirdPartyDest(pkg) ==
    CASE pkg = "colorama" -> ModColorama
      [] pkg = "scipy" -> ModScipy
      [] pkg = "scipy.libs" -> ModScipyLibs

\* An installer run in progress: the filesystem, the operations done so far and
\* the exception raised ("" while none was).
Run0(f) == [fs |-> f, ops |-> <<>>, exc |-> ""]

Exists(f, p) == p \in DOMAIN f

Put(f, p, tag) == [q \in (DOMAIN f) \cup {p} |-> IF q = p THEN tag ELSE f[q]]

Remove(f, ps) == [q \in (DOMAIN f) \ ps |-> f[q]]

\* shutil.rmtree(path, ignore_errors=True): removes the tree (for the Soulstruct
\* module that includes the DLL below it); when removal fails (Blender holds
\* files open) the error is ignored and the tree stays.
Rmtree(r, p, ok) ==
    IF r.exc # "" THEN r
    ELSE [r EXCEPT !.ops = Append(@, <<"rmtree", p>>),
                   !.fs = IF ok THEN Remove(@, {q \in DOMAIN @ : IsPrefix(p, q)}) ELSE @]

\* shutil.copytree(src, dst, dirs_exist_ok=...): a fresh copy, merged into what
\* is left at the destination; FileExistsError when the destination exists and
\* dirs_exist_ok is false.
Copytree(r, p, dirs_exist_ok) ==
    IF r.exc # "" THEN r
    ELSE IF Exists(r.fs, p) /\ ~dirs_exist_ok THEN [r EXCEPT !.exc = "FileExistsError"]
    ELSE [r EXCEPT !.ops = Append(@, <<"copytree", p>>),
                   !.fs = Put(@, p, IF Exists(@, p) /\ @[p] # "fresh" THEN "merged" ELSE "fresh")]

Mkdir(r, p) ==
    IF r.exc # "" THEN r
    ELSE IF Exists(r.fs, p) THEN r
    ELSE [r EXCEPT !.ops = Append(@, <<"mkdir", p>>), !.fs = Put(@, p, "empty")]

CopyFile(r, p) ==
    IF r.exc # "" THEN r
    ELSE [r EXCEPT !.ops = Append(@, <<"copy", p>>), !.fs = Put(@, p, "fresh")]

\* install_site_package(dir_name, destination_dir)
install_site_package(r, pkg, dest, env) ==
    IF r.exc # "" THEN r
    ELSE IF ~env.sitePackagesDir THEN [r EXCEPT !.exc = "FileNotFoundError"]
    ELSE IF pkg \notin env.sitePackages THEN [r EXCEPT !.exc = "FileNotFoundError"]
    ELSE Copytree(r, dest, TRUE)

\* The `if update_third_party_modules:` block of install().
InstallThirdParty(r, d, env) ==
    LET r1 == install_site_package(r, ThirdPartyPackages[1], d \o ThirdPartyDest(ThirdPartyPackages[1]), env)
        r2 == install_site_package(r1, ThirdPartyPackages[2], d \o ThirdPartyDest(ThirdPartyPackages[2]), env)
    IN  install_site_package(r2, ThirdPartyPackages[3], d \o ThirdPartyDest(ThirdPartyPackages[3]), env)

\* The `if update_soulstruct_module:` block of install().
InstallSoulstructBlock(r, d, update_third_party_modules, env) ==
    LET r1 == Rmtree(r, d \o ModSoulstruct, env.rmtreeOk)
        r2 == Copytree(r1, d \o ModSoulstruct, TRUE)
        r3 == IF env.oo2core /\ ~Exists(r2.fs, d \o ModOo2core) THEN CopyFile(r2, d \o ModOo2core) ELSE r2
        r4 == IF update_third_party_modules THEN InstallThirdParty(r3, d, env) ELSE r3
    IN  IF env.havok THEN Copytree(Rmtree(r4, d \o ModHavok, env.rmtreeOk), d \o ModHavok, TRUE) ELSE r4

\* The "Install actual Blender scripts" block of install().
InstallAddonBlock(r, d, env) ==
    Copytree(Rmtree(Mkdir(r, d \o AddonDir), d \o AddonDir, env.rmtreeOk), d \o AddonDir, FALSE)

\* install() with the directory-name check made after the module update instead
\* of before it.
install_CheckNameLate(f, d, update_soulstruct_module, update_third_party_modules, env) ==
    LET r1 == IF update_soulstruct_module
              THEN InstallSoulstructBlock(Run0(f), d, update_third_party_modules, env)
              ELSE Run0(f)
    IN  IF PathName(d) # ScriptsName THEN [r1 EXCEPT !.exc = "ValueError"]
        ELSE InstallAddonBlock(r1, d, env)

\* install(blender_scripts_dir, update_soulstruct_module, update_third_party_modules)
install(f, d, update_soulstruct_module, update_third_party_modules, env) ==
    IF PathName(d) # ScriptsName THEN [Run0(f) EXCEPT !.exc = "ValueError"]
    ELSE LET r1 == IF update_soulstruct_module
                   THEN InstallSoulstructBlock(Run0(f), d, update_third_party_modules, env)
                   ELSE Run0(f)
         IN  InstallAddonBlock(r1, d, env)

\* main(args): the match statement; "usage" is the `case _` branch.
main(f, args, env) ==
    IF Len(args) = 3 /\ args[2] = FlagSoulstruct /\ args[3] = FlagThirdParty
        THEN install(f, args[1], TRUE, TRUE, env)
    ELSE IF Len(args) = 2 /\ args[2] = FlagSoulstruct
        THEN install(f, args[1], TRUE, FALSE, env)
    ELSE IF Len(args) = 2 /\ args[2] = FlagThirdParty
        THEN install(f, args[1], FALSE, TRUE, env)
    ELSE IF Len(args) = 1
        THEN install(f, args[1], FALSE, FALSE, env)
    ELSE [Run0(f) EXCEPT !.exc = "usage"]

\* Inputs of the installer.
ScriptsDirs == {<<"blender", "scripts">>, <<"blender", "addons">>, <<"scripts", "old">>, <<>>}

MainArgs ==
    {<<d>> : d \in ScriptsDirs \cup {FlagThirdParty}}
    \cup {<<d, fl>> : d \in ScriptsDirs \cup {FlagThirdParty}, fl \in {FlagSoulstruct, FlagThirdParty}}
    \cup {<<d, FlagSoulstruct, FlagThirdParty>> : d \in ScriptsDirs}
    \cup {<<<<"blender", "scripts">>, FlagThirdParty, FlagSoulstruct>>, <<>>}

InstallEnvs ==
    [rmtreeOk : BOOLEAN, oo2core : BOOLEAN, havok : BOOLEAN, sitePackagesDir : BOOLEAN,
     sitePackages : {{}, {"colorama"}, {"colorama", "scipy", "scipy.libs"}}]

NoCall == [call |-> "none", args |-> <<>>, dir |-> <<>>, us |-> FALSE, utp |-> FALSE,
           env |-> CHOOSE e \in InstallEnvs : TRUE, exc |-> "", ops |-> <<>>]

InitialFs ==
    LET d == <<"blender", "scripts">> IN
    {<<>>,
     [p \in {d \o ModSoulstruct, d \o ModOo2core, d \o AddonDir} |-> "stale"],
     [p \in {d \o AddonDir} |-> "stale"]}

InitInstallVars ==
    /\ fs \in InitialFs
    /\ lastInstall = NoCall

\* The script runs once per process: one call, from the initial filesystem.
InstallCall ==
    /\ lastInstall.call = "none"
    /\ \E d \in ScriptsDirs, us \in BOOLEAN, utp \in BOOLEAN, env \in InstallEnvs :
      \E r \in {install(fs, d, us, utp, env)} :
        /\ fs' = r.fs
        /\ lastInstall' = [call |-> "install", args |-> <<>>, dir |-> d, us |-> us, utp |-> utp,
                           env |-> env, exc |-> r.exc, ops |-> r.ops]
        /\ UNCHANGED <<binderVars, sceneVars>>

MainCall ==
    /\ lastInstall.call = "none"
    /\ \E args \in MainArgs, env \in InstallEnvs :
      \E r \in {main(fs, args, env)} :
        /\ fs' = r.fs
        /\ lastInstall' = [call |-> "main", args |-> args, dir |-> <<>>, us |-> FALSE, utp |-> FALSE,
                           env |-> env, exc |-> r.exc, ops |-> r.ops]
        /\ UNCHANGED <<binderVars, sceneVars>>

InitBinderIdle ==
    /\ binder = <<>>
    /\ lastFind = [call |-> "none"]

InitInstall == InitInstallVars /\ InitBinderIdle /\ InitSceneIdle

NextInstall == InstallCall \/ MainCall

SpecInstall == InitInstall /\ [][NextInstall]_vars

\* C3: install() called with a directory whose last path component is not
\* 'scripts' raises ValueError and performs no filesystem operation at all
\* (nothing removed, created or copied), whatever the two update flags are.
C3_BadNameNoFilesystemChange ==
    [][(lastInstall'.call = "install" /\ PathName(lastInstall'.dir) # ScriptsName)
        => (lastInstall'.exc = "ValueError" /\ lastInstall'.ops = <<>> /\ fs' = fs)]_vars

C3_Witness ==
    /\ lastInstall.call = "install"
    /\ PathName(lastInstall.dir) # ScriptsName
    /\ lastInstall.dir # <<>>
    /\ lastInstall.us /\ lastInstall.utp
    /\ lastInstall.env.sitePackagesDir /\ lastInstall.env.sitePackages # {}
    /\ lastInstall.exc = "ValueError"
    /\ fs # <<>>

\* C4: whenever main() accepts its arguments and runs to completion with the
\* `--updateThirdParty` flag among them, colorama, scipy and scipy.libs are
\* installed into the modules directory of the given scripts directory.
C4_ThirdPartyInstalledWhenFlagged ==
    (/\ lastInstall.call = "main"
     /\ lastInstall.exc = ""
     /\ FlagThirdParty \in Range(lastInstall.args))
    => \A i \in 1..Len(ThirdPartyPackages) :
          Exists(fs, lastInstall.args[1] \o ThirdPartyDest(ThirdPartyPackages[i]))

----------------------------------------------------------------------------
(* export_hkx_map_collision.py: names, patterns and find_binder_hkx_entry *)

Digits == {"0", "1", "2", "3", "4", "5", "6", "7", "8", "9"}

Letters == {"A", "B", "C", "a", "b", "c", "d", "f", "h", "k", "l", "m", "o", "x"}

\* \w of the `re` module, over the characters used here.
WordChars == Digits \cup Letters \cup {"_"}

DigitVal(c) ==
    CASE c = "0" -> 0 [] c = "1" -> 1 [] c = "2" -> 2 [] c = "3" -> 3 [] c = "4" -> 4
      [] c = "5" -> 5 [] c = "6" -> 6 [] c = "7" -> 7 [] c = "8" -> 8 [] c = "9" -> 9

DigitChar(n) ==
    CASE n = 0 -> "0" [] n = 1 -> "1" [] n = 2 -> "2" [] n = 3 -> "3" [] n = 4 -> "4"
      [] n = 5 -> "5" [] n = 6 -> "6" [] n = 7 -> "7" [] n = 8 -> "8" [] n = 9 -> "9"

\* int(s) for a string of decimal digits.
RECURSIVE ParseInt(_)
ParseInt(s) == IF Len(s) = 0 THEN 0 ELSE 10 * ParseInt(SubSeq(s, 1, Len(s) - 1)) + DigitVal(Last(s))

\* str(n) for n >= 0.
RECURSIVE IntToStr(_)
IntToStr(n) == IF n < 10 THEN <<DigitChar(n)>> ELSE Append(IntToStr(n \div 10), DigitChar(n % 10))

\* f"{n:02d}": decimal, zero-padded to a width of at least two.
Format02d(n) == IF n < 10 THEN <<"0", DigitChar(n)>> ELSE IntToStr(n)

\* LOOSE_HKX_COLLISION_NAME_RE = ^([hl])(\w{6})A(\d\d)$, as a match predicate.
LOOSE_HKX_COLLISION_NAME_RE(s) ==
    /\ Len(s) = 10
    /\ s[1] \in {"h", "l"}
    /\ \A i \in 2..7 : s[i] \in WordChars
    /\ s[8] = "A"
    /\ s[9] \in Digits /\ s[10] \in Digits

\* NUMERIC_HKX_COLLISION_NAME_RE = ^([hl])(\d{4})B(\d)A(\d\d)$, as a match predicate.
NUMERIC_HKX_COLLISION_NAME_RE(s) ==
    /\ Len(s) = 10
    /\ s[1] \in {"h", "l"}
    /\ \A i \in 2..5 : s[i] \in Digits
    /\ s[6] = "B"
    /\ s[7] \in Digits
    /\ s[8] = "A"
    /\ s[9] \in Digits /\ s[10] \in Digits

\* match.group(3) and match.group(4) of NUMERIC_HKX_COLLISION_NAME_RE.
NumericGroup3(s) == SubSeq(s, 7, 7)
NumericGroup4(s) == SubSeq(s, 9, 10)

\* The map string with area and block exchanged.
MapStemFromName_BlockAreaSwapped(s) ==
    LET block == ParseInt(NumericGroup3(s))
        area == ParseInt(NumericGroup4(s))
    IN  <<"m">> \o Format02d(block) \o <<"_">> \o Format02d(area) \o <<"_", "0", "0", "_", "0", "0">>

\* block, area = int(group(3)), int(group(4)); f"m{area:02d}_{block:02d}_00_00"
MapStemFromName(s) ==
    LET block == ParseInt(NumericGroup3(s))
        area == ParseInt(NumericGroup4(s))
    IN  <<"m">> \o Format02d(area) \o <<"_">> \o Format02d(block) \o <<"_", "0", "0", "_", "0", "0">>

\* An entry path template is a sequence of literal characters and of the
\* placeholders "{map}" and "{name}"; str.format substitutes the placeholders.
RECURSIVE FormatPath(_, _, _)
FormatPath(tpl, map, name) ==
    IF Len(tpl) = 0 THEN <<>>
    ELSE (CASE tpl[1] = "{map}" -> map
            [] tpl[1] = "{name}" -> name
            [] OTHER -> <<tpl[1]>>) \o FormatPath(Tail(tpl), map, name)

HkxSuffix == <<".", "h", "k", "x">>
DcxSuffix == <<".", "d", "c", "x">>

\* BinderEntry.name: the part of the entry path after its last separator.
RECURSIVE EntryName(_)
EntryName(path) ==
    IF Len(path) = 0 THEN <<>>
    ELSE IF Last(path) \in {"\\", "/"} THEN <<>>
    ELSE Append(EntryName(SubSeq(path, 1, Len(path) - 1)), Last(path))

\* re.match(rf"{stem}\.hkx(\.dcx)?", name): the pattern is matched at the start
\* of the name and is not anchored at its end (stems are word characters).
NameMatchesHkx(stem, name) == IsPrefix(stem \o HkxSuffix, name)

\* binder.find_entries_matching_name(...): the indices of the matching entries, in Binder order.
MatchingEntries(b, stem) ==
    LET F[i \in 0..Len(b)] ==
            IF i = 0 THEN <<>>
            ELSE IF NameMatchesHkx(stem, EntryName(b[i].path)) THEN Append(F[i - 1], i) ELSE F[i - 1]
    IN  F[Len(b)]

\* binder.highest_entry_id, for a Binder with entries.
HighestEntryId(b) == CHOOSE m \in {b[i].id : i \in 1..Len(b)} : \A i \in 1..Len(b) : b[i].id <= m

\* find_binder_hkx_entry without the `if not overwrite_existing: raise` check.
find_binder_hkx_entry_NoOverwriteCheck(b, hkx_entry_stem, default_entry_path, default_entry_flags, overwrite_existing, map_stem) ==
    LET matching_entries == MatchingEntries(b, hkx_entry_stem)
        raise == [binder |-> b, exc |-> "HKXMapCollisionExportError", entry |-> 0, reports |-> <<>>]
        create(entry_path) ==
            LET new_entry_id == HighestEntryId(b) + 1
                hkx_entry == [id |-> new_entry_id, path |-> entry_path, flags |-> default_entry_flags,
                              data |-> "empty"]
            IN  [binder |-> Append(b, hkx_entry), exc |-> "", entry |-> Len(b) + 1,
                 reports |-> <<"INFO:creating">>]
    IN  IF matching_entries = <<>> THEN
            IF "{map}" \in Range(default_entry_path) THEN
                IF map_stem = <<>> THEN
                    IF NUMERIC_HKX_COLLISION_NAME_RE(hkx_entry_stem)
                    THEN create(FormatPath(default_entry_path, MapStemFromName(hkx_entry_stem), hkx_entry_stem))
                    ELSE raise
                ELSE create(FormatPath(default_entry_path, map_stem, hkx_entry_stem))
            ELSE create(FormatPath(default_entry_path, <<>>, hkx_entry_stem))
        ELSE [binder |-> b, exc |-> "", entry |-> matching_entries[1],
              reports |-> IF Len(matching_entries) > 1 THEN <<"WARNING:multiple">> ELSE <<"INFO:replacing">>]

\* find_binder_hkx_entry(operator, binder, hkx_entry_stem, default_entry_path,
\* default_entry_flags, overwrite_existing, map_stem): the Binder afterwards,
\* the exception raised ("" for none), the index of the entry returned (0 when
\* it raised) and the operator reports.
find_binder_hkx_entry(b, hkx_entry_stem, default_entry_path, default_entry_flags, overwrite_existing, map_stem) ==
    LET matching_entries == MatchingEntries(b, hkx_entry_stem)
        raise == [binder |-> b, exc |-> "HKXMapCollisionExportError", entry |-> 0, reports |-> <<>>]
        create(entry_path) ==
            LET new_entry_id == HighestEntryId(b) + 1
                hkx_entry == [id |-> new_entry_id, path |-> entry_path, flags |-> default_entry_flags,
                              data |-> "empty"]
            IN  [binder |-> Append(b, hkx_entry), exc |-> "", entry |-> Len(b) + 1,
                 reports |-> <<"INFO:creating">>]
    IN  IF matching_entries = <<>> THEN
            IF "{map}" \in Range(default_entry_path) THEN
                IF map_stem = <<>> THEN
                    IF NUMERIC_HKX_COLLISION_NAME_RE(hkx_entry_stem)
                    THEN create(FormatPath(default_entry_path, MapStemFromName(hkx_entry_stem), hkx_entry_stem))
                    ELSE raise
                ELSE create(FormatPath(default_entry_path, map_stem, hkx_entry_stem))
            ELSE create(FormatPath(default_entry_path, <<>>, hkx_entry_stem))
        ELSE IF ~overwrite_existing THEN raise
        ELSE [binder |-> b, exc |-> "", entry |-> matching_entries[1],
              reports |-> IF Len(matching_entries) > 1 THEN <<"WARNING:multiple">> ELSE <<"INFO:replacing">>]

\* Inputs of find_binder_hkx_entry.
Name_h0500B1A12 == <<"h", "0", "5", "0", "0", "B", "1", "A", "1", "2">>
Name_l0500B1A12 == <<"l", "0", "5", "0", "0", "B", "1", "A", "1", "2">>
Name_h0007B0A03 == <<"h", "0", "0", "0", "7", "B", "0", "A", "0", "3">>
Name_h05x0B1A12 == <<"h", "0", "5", "x", "0", "B", "1", "A", "1", "2">>
Name_h0500B1A1 == <<"h", "0", "5", "0", "0", "B", "1", "A", "1">>
Name_x0500B1A12 == <<"x", "0", "5", "0", "0", "B", "1", "A", "1", "2">>
Name_foo == <<"f", "o", "o">>
Map_m10_00_00_00 == <<"m", "1", "0", "_", "0", "0", "_", "0", "0", "_", "0", "0">>
Map_m12_01_00_00 == <<"m", "1", "2", "_", "0", "1", "_", "0", "0", "_", "0", "0">>

\* "{map}\\{name}.hkx.dcx", the operators' default, and a template without "{map}".
PathTemplateMap == <<"{map}", "\\", "{name}">> \o HkxSuffix \o DcxSuffix
PathTemplateNoMap == <<"{name}">> \o HkxSuffix

DefaultEntryFlags == 2

FindStems == {Name_h0500B1A12, Name_h0007B0A03, Name_h05x0B1A12, Name_foo}

FindTemplates == {PathTemplateMap, PathTemplateNoMap}

FindMapStems == {<<>>, Map_m10_00_00_00}

NewEntry(id, path) == [id |-> id, path |-> path, flags |-> DefaultEntryFlags, data |-> "old"]

\* Binders as read from disk: HKXBHDs of a map are never empty.
InitialBinders ==
    {<< NewEntry(0, Map_m12_01_00_00 \o <<"\\">> \o Name_l0500B1A12 \o HkxSuffix \o DcxSuffix),
        NewEntry(7, Map_m12_01_00_00 \o <<"\\">> \o Name_h0500B1A12 \o HkxSuffix \o DcxSuffix \o <<".", "b", "a", "k">>) >>,
     << NewEntry(3, Map_m12_01_00_00 \o <<"\\">> \o Name_h0500B1A12 \o HkxSuffix \o DcxSuffix),
        NewEntry(1, Name_h0500B1A12 \o HkxSuffix) >>,
     << NewEntry(0, Name_foo \o DcxSuffix),
        NewEntry(1, Map_m10_00_00_00 \o <<"\\">> \o Name_h05x0B1A12 \o HkxSuffix) >>}

\* Bound on the number of entries of the Binder.
MaxEntries == 3

InitBinderVars ==
    /\ binder \in InitialBinders
    /\ lastFind = [call |-> "none"]

FindBinderHkxEntry ==
    \E stem \in FindStems, tpl \in FindTemplates, overwrite \in BOOLEAN, map_stem \in FindMapStems :
    \E r \in {find_binder_hkx_entry(binder, stem, tpl, DefaultEntryFlags, overwrite, map_stem)} :
        /\ Len(r.binder) <= MaxEntries
        /\ binder' = r.binder
        /\ lastFind' = [call |-> "find", stem |-> stem, tpl |-> tpl, overwrite |-> overwrite,
                        map_stem |-> map_stem, exc |-> r.exc, entry |-> r.entry, reports |-> r.reports,
                        matched |-> MatchingEntries(binder, stem) # <<>>]
        /\ UNCHANGED <<installVars, sceneVars>>

InitInstallIdle ==
    /\ fs = <<>>
    /\ lastInstall = NoCall

InitBinder == InitBinderVars /\ InitInstallIdle /\ InitSceneIdle

NextBinder == FindBinderHkxEntry

SpecBinder == InitBinder /\ [][NextBinder]_vars

\* An entry named exactly '{stem}.hkx' or '{stem}.hkx.dcx'.
IsHkxEntryOf(e, stem) == EntryName(e.path) \in {stem \o HkxSuffix, stem \o HkxSuffix \o DcxSuffix}

\* C5: when the Binder holds an entry named '{stem}.hkx' or '{stem}.hkx.dcx',
\* find_binder_hkx_entry with overwrite_existing returns the first matching
\* entry and leaves the Binder as it was (no entry added, IDs unchanged), and
\* without overwrite_existing it raises HKXMapCollisionExportError and leaves
\* the Binder as it was.
C5_ExistingEntryFoundOrRefused ==
    [][(/\ lastFind'.call = "find"
        /\ \E i \in 1..Len(binder) : IsHkxEntryOf(binder[i], lastFind'.stem))
        => /\ binder' = binder
           /\ IF lastFind'.overwrite
              THEN /\ lastFind'.exc = ""
                   /\ lastFind'.entry \in 1..Len(binder)
                   /\ NameMatchesHkx(lastFind'.stem, EntryName(binder[lastFind'.entry].path))
                   /\ \A j \in 1..(lastFind'.entry - 1) :
                          ~NameMatchesHkx(lastFind'.stem, EntryName(binder[j].path))
              ELSE /\ lastFind'.exc = "HKXMapCollisionExportError"
                   /\ lastFind'.entry = 0]_vars

C5_Witness ==
    /\ lastFind.call = "find"
    /\ lastFind.stem = Name_h0500B1A12
    /\ ~lastFind.overwrite
    /\ lastFind.exc = "HKXMapCollisionExportError"
    /\ Len(binder) = 3
    /\ IsHkxEntryOf(binder[1], Name_h0500B1A12)
    /\ IsHkxEntryOf(binder[2], Name_h0500B1A12)

\* The standard map model name [hl]####B#A##.
IsNumericCollisionName(s) ==
    /\ Len(s) = 10
    /\ s[1] = "h" \/ s[1] = "l"
    /\ {s[2], s[3], s[4], s[5], s[7], s[9], s[10]} \subseteq Digits
    /\ s[6] = "B" /\ s[8] = "A"

----------------------------------------------------------------------------
(* The Blender scene, the settings and the operators' poll predicates. *)

DARK_SOULS_DSR == "DARK_SOULS_DSR"

\* A custom property that is not set (`obj.get(key, None)` gives None).
None == <<"<None>">>

NoObject == 0

Name_m10_00_00_00 == Map_m10_00_00_00
Name_h0500B1A10 == <<"h", "0", "5", "0", "0", "B", "1", "A", "1", "0">>
Name_h0501B1A10 == <<"h", "0", "5", "0", "1", "B", "1", "A", "1", "0">>
Name_l0500B1A10 == <<"l", "0", "5", "0", "0", "B", "1", "A", "1", "0">>
Name_h0007B0A10 == <<"h", "0", "0", "0", "7", "B", "0", "A", "1", "0">>
Name_h0007B0A12 == <<"h", "0", "0", "0", "7", "B", "0", "A", "1", "2">>
Name_x0500B1A10 == <<"x", "0", "5", "0", "0", "B", "1", "A", "1", "0">>
Name_h0009B0A10 == <<"h", "0", "0", "0", "9", "B", "0", "A", "1", "0">>
Name_h0010B0A10 == <<"h", "0", "0", "1", "0", "B", "0", "A", "1", "0">>
Name_hbad == <<"h", "b", "a", "d">>

Obj(name, type, parent, stem, stype, subtype, tri) ==
    [name |-> name, type |-> type, parent |-> parent, model_file_stem |-> stem,
     soulstruct_type |-> stype, part_subtype |-> subtype, triangulated |-> tri, legacy_material_index |-> ~tri]

Parent(name, parent, stem) == Obj(name, "EMPTY", parent, stem, "MSB_PART", "Collision", TRUE)

Mesh(name, parent, tri) == Obj(name, "MESH", parent, None, "COLLISION", "", tri)

\* The scene: a map parent, collision parents and their submeshes.
Scene ==
    <<Obj(Name_m10_00_00_00 \o <<" ", "C">>, "EMPTY", NoObject, None, "NONE", "", TRUE),   \* 1
      Parent(Name_h0500B1A10, 1, Name_h0501B1A10),                                       \* 2: h and l submeshes
      Parent(Name_h0007B0A10 \o <<".", "0", "0", "1">>, 1, None),                        \* 3: h submeshes only
      Parent(Name_x0500B1A10, 1, None),                                                  \* 4: neither h nor l
      Parent(Name_l0500B1A10, NoObject, <<>>),                                           \* 5: no map parent
      Parent(Name_h0009B0A10, 1, None),                                                  \* 6: has a non-mesh child
      Obj(Name_h0010B0A10, "EMPTY", 1, None, "MSB_PART", "Navmesh", TRUE),               \* 7: no children
      Parent(Name_hbad, 1, None),                                                        \* 8: short name
      Mesh(<<"h", " ", "0">>, 2, TRUE),                                                  \* 9
      Mesh(<<"L", " ", "0">>, 2, TRUE),                                                  \* 10
      Mesh(<<"h", " ", "0">>, 3, TRUE),                                                  \* 11
      Mesh(<<"x", " ", "0">>, 4, TRUE),                                                  \* 12
      Mesh(<<"l", " ", "0">>, 5, TRUE),                                                  \* 13
      Mesh(<<"h", " ", "0">>, 5, FALSE),                                                 \* 14: not triangulated
      Mesh(<<"h", " ", "0">>, 6, TRUE),                                                  \* 15
      Obj(<<"h", " ", "1">>, "LIGHT", 6, None, "NONE", "", TRUE),                        \* 16
      Mesh(<<"h", " ", "0">>, 8, TRUE)>>                                                 \* 17

ObjectIds == 1..Len(Scene)

\* bpy.types.Object.children, in scene order.
Children(objs, p) ==
    LET F[i \in 0..Len(objs)] ==
            IF i = 0 THEN <<>>
            ELSE IF objs[i].parent = p THEN Append(F[i - 1], i) ELSE F[i - 1]
    IN  F[Len(objs)]

\* all(child.type == "MESH" for child in children)
AllMeshes(objs, children) == \A i \in 1..Len(children) : objs[children[i]].type = "MESH"

\* ExportLooseHKXMapCollision.poll without the `len(children) >= 1` test.
ExportLooseHKXMapCollision_poll_NoChildTest(objs, sel, st) ==
    IF ~(st.game = DARK_SOULS_DSR) THEN FALSE
    ELSE LET is_empty_selected == Len(sel) = 1 /\ objs[sel[1]].type = "EMPTY" IN
         IF ~is_empty_selected THEN FALSE
         ELSE AllMeshes(objs, Children(objs, sel[1]))

\* ExportLooseHKXMapCollision.poll
ExportLooseHKXMapCollision_poll(objs, sel, st) ==
    IF ~(st.game = DARK_SOULS_DSR) THEN FALSE
    ELSE LET is_empty_selected == Len(sel) = 1 /\ objs[sel[1]].type = "EMPTY" IN
         IF ~is_empty_selected THEN FALSE
         ELSE LET children == Children(objs, sel[1]) IN
              Len(children) >= 1 /\ AllMeshes(objs, children)

\* ExportHKXMapCollisionIntoBinder.poll
ExportHKXMapCollisionIntoBinder_poll(objs, sel, st) ==
    IF ~(st.game = DARK_SOULS_DSR) THEN FALSE
    ELSE LET is_empty_selected == Len(sel) = 1 /\ objs[sel[1]].type = "EMPTY" IN
         IF ~is_empty_selected THEN FALSE
         ELSE LET children == Children(objs, sel[1]) IN
              Len(children) >= 1 /\ AllMeshes(objs, children)

\* The `for obj in context.selected_objects` loop of the two map export polls.
RECURSIVE PollParentsLoop(_, _, _)
PollParentsLoop(objs, sel, i) ==
    IF i > Len(sel) THEN TRUE
    ELSE IF objs[sel[i]].type # "EMPTY" THEN FALSE
    ELSE IF Children(objs, sel[i]) = <<>> THEN FALSE
    ELSE IF ~AllMeshes(objs, Children(objs, sel[i])) THEN FALSE
    ELSE PollParentsLoop(objs, sel, i + 1)

\* ExportHKXMapCollisionIntoHKXBHD.poll
ExportHKXMapCollisionIntoHKXBHD_poll(objs, sel, st) ==
    IF ~st.can_auto_export THEN FALSE
    ELSE IF ~(st.game = DARK_SOULS_DSR) THEN FALSE
    ELSE IF sel = <<>> THEN FALSE
    ELSE PollParentsLoop(objs, sel, 1)

\* ExportMSBMapCollision.poll
ExportMSBMapCollision_poll(objs, sel, st) ==
    IF ~st.can_auto_export THEN FALSE
    ELSE IF ~(st.game = DARK_SOULS_DSR) THEN FALSE
    ELSE IF sel = <<>> THEN FALSE
    ELSE PollParentsLoop(objs, sel, 1)

\* The operator configurations (MSBPartOperatorConfig) of the MSB part operator subclasses.
PartConfigs ==
    {[PART_SUBTYPE |-> "Collision", GAME_ENUM_NAME |-> "collision_part",
      games |-> {DARK_SOULS_DSR, "DARK_SOULS_PTDE"}],
     [PART_SUBTYPE |-> "Navmesh", GAME_ENUM_NAME |-> "navmesh_part", games |-> {DARK_SOULS_DSR}],
     [PART_SUBTYPE |-> "Asset", GAME_ENUM_NAME |-> "asset_part", games |-> {"ELDEN_RING"}]}

\* cls.config.get_bl_part_type(settings.game) raises KeyError.
GetBlPartTypeRaises(cfg, st) == st.game \notin cfg.games

\* is_path_and_file(settings.get_import_msb_path())
ImportMsbIsFile(st, dk) == st.import_msb # None /\ st.import_msb \in DOMAIN dk.msbs

\* BaseImportSingleMSBPart.poll
BaseImportSingleMSBPart_poll(cfg, st, enums, dk) ==
    IF GetBlPartTypeRaises(cfg, st) THEN FALSE
    ELSE IF ~ImportMsbIsFile(st, dk) THEN FALSE
    ELSE IF enums[cfg.GAME_ENUM_NAME] \in {"", "0"} THEN FALSE
    ELSE TRUE

\* BaseImportAllMSBParts.poll
BaseImportAllMSBParts_poll(cfg, st, dk) ==
    IF GetBlPartTypeRaises(cfg, st) THEN FALSE
    ELSE IF ~ImportMsbIsFile(st, dk) THEN FALSE
    ELSE TRUE

\* The `for obj in context.selected_objects` loop of BaseExportMSBParts.poll.
RECURSIVE ExportPartsPollLoop(_, _, _, _)
ExportPartsPollLoop(cfg, objs, sel, i) ==
    IF i > Len(sel) THEN TRUE
    ELSE IF objs[sel[i]].soulstruct_type # "MSB_PART" \/ objs[sel[i]].part_subtype # cfg.PART_SUBTYPE THEN FALSE
    ELSE ExportPartsPollLoop(cfg, objs, sel, i + 1)

\* BaseExportMSBParts.poll
BaseExportMSBParts_poll(cfg, objs, sel) ==
    IF sel = <<>> THEN FALSE
    ELSE ExportPartsPollLoop(cfg, objs, sel, 1)

\* MSB stems and files.
Msb_m10 == Map_m10_00_00_00

MsbPart(model) == [model_name |-> model, transform |-> "msb"]

\* The MSB of map m10_00_00_00: Collision parts by name.
InitialMsb ==
    [collisions |->
        [n \in {Name_h0500B1A10, Name_l0500B1A10, Name_h0007B0A10, Name_hbad} |->
            CASE n = Name_h0500B1A10 -> MsbPart(SubSeq(Name_h0500B1A10, 1, 7))
              [] n = Name_l0500B1A10 -> MsbPart(SubSeq(Name_l0500B1A10, 1, 7))
              [] n = Name_h0007B0A10 -> MsbPart(SubSeq(Name_h0007B0A12, 1, 7))
              [] n = Name_hbad -> MsbPart(<<>>)]]

\* Bound on the number of objects selected at once.
MaxSelected == 2

Selectable == {2, 3, 6, 7, 9}

Selections ==
    {sel \in UNION {[1..n -> Selectable] : n \in 0..MaxSelected} :
        \A i, j \in 1..Len(sel) : i # j => sel[i] # sel[j]}

Games == {DARK_SOULS_DSR, "ELDEN_RING"}

DefaultSettings ==
    [game |-> DARK_SOULS_DSR, can_auto_export |-> TRUE, detect_map_from_parent |-> TRUE,
     map_stem |-> Map_m10_00_00_00, import_msb |-> Msb_m10]

InitialDisk ==
    [hkx |-> <<>>, binders |-> <<>>, bdts |-> {}, msbs |-> [m \in {Msb_m10} |-> InitialMsb],
     settings_saved |-> FALSE]

UserOp == [kind |-> "user", op |-> "", cfg |-> "", result |-> "", reports |-> <<>>]

PollOp(op, cfg, result) == [kind |-> "poll", op |-> op, cfg |-> cfg, result |-> result, reports |-> <<>>]

InitScene ==
    /\ objects = Scene
    /\ selected_objects = <<>>
    /\ settings = DefaultSettings
    /\ game_enums = [e \in {c.GAME_ENUM_NAME : c \in PartConfigs} |-> ""]
    /\ disk = InitialDisk
    /\ msbs = <<>>
    /\ lastOp = UserOp
    /\ runs = 0

\* The user changes the selection in the viewport.
UserSelects ==
    /\ \E sel \in Selections : selected_objects' = sel
    /\ lastOp' = UserOp
    /\ UNCHANGED <<objects, settings, game_enums, disk, msbs, runs, installVars, binderVars>>

\* The user edits the Soulstruct settings panel or an MSB part enum.
UserChangesSettings ==
    /\ \/ /\ \E g \in Games : settings' = [settings EXCEPT !.game = g]
          /\ UNCHANGED game_enums
       \/ /\ settings' = [settings EXCEPT !.can_auto_export = ~@]
          /\ UNCHANGED game_enums
       \/ /\ \E m \in {None, Msb_m10, Map_m12_01_00_00} : settings' = [settings EXCEPT !.import_msb = m]
          /\ UNCHANGED game_enums
       \/ /\ \E v \in {"", "0", "h0500B1A10"} : game_enums' = [game_enums EXCEPT !["collision_part"] = v]
          /\ UNCHANGED settings
    /\ lastOp' = UserOp
    /\ UNCHANGED <<objects, selected_objects, disk, msbs, runs, installVars, binderVars>>

PollFrame == UNCHANGED <<objects, selected_objects, settings, game_enums, disk, msbs, runs, installVars, binderVars>>

Poll_ExportLooseHKXMapCollision ==
    /\ lastOp' = PollOp("ExportLooseHKXMapCollision", "",
                        ExportLooseHKXMapCollision_poll(objects, selected_objects, settings))
    /\ PollFrame

Poll_ExportHKXMapCollisionIntoBinder ==
    /\ lastOp' = PollOp("ExportHKXMapCollisionIntoBinder", "",
                        ExportHKXMapCollisionIntoBinder_poll(objects, selected_objects, settings))
    /\ PollFrame

\* A poll that saves the settings, as the operator's execute() does first.
Poll_ExportHKXMapCollisionIntoHKXBHD_SavesSettings ==
    /\ lastOp' = PollOp("ExportHKXMapCollisionIntoHKXBHD", "",
                        ExportHKXMapCollisionIntoHKXBHD_poll(objects, selected_objects, settings))
    /\ disk' = [disk EXCEPT !.settings_saved = TRUE]
    /\ UNCHANGED <<objects, selected_objects, settings, game_enums, msbs, runs, installVars, binderVars>>

Poll_ExportHKXMapCollisionIntoHKXBHD ==
    /\ lastOp' = PollOp("ExportHKXMapCollisionIntoHKXBHD", "",
                        ExportHKXMapCollisionIntoHKXBHD_poll(objects, selected_objects, settings))
    /\ PollFrame

Poll_ExportMSBMapCollision ==
    /\ lastOp' = PollOp("ExportMSBMapCollision", "",
                        ExportMSBMapCollision_poll(objects, selected_objects, settings))
    /\ PollFrame

Poll_BaseImportSingleMSBPart ==
    /\ \E cfg \in PartConfigs :
          lastOp' = PollOp("BaseImportSingleMSBPart", cfg.PART_SUBTYPE,
                           BaseImportSingleMSBPart_poll(cfg, settings, game_enums, disk))
    /\ PollFrame

Poll_BaseImportAllMSBParts ==
    /\ \E cfg \in PartConfigs :
          lastOp' = PollOp("BaseImportAllMSBParts", cfg.PART_SUBTYPE,
                           BaseImportAllMSBParts_poll(cfg, settings, disk))
    /\ PollFrame

Poll_BaseExportMSBParts ==
    /\ \E cfg \in PartConfigs :
          lastOp' = PollOp("BaseExportMSBParts", cfg.PART_SUBTYPE,
                           BaseExportMSBParts_poll(cfg, objects, selected_objects))
    /\ PollFrame

InitPoll == InitScene /\ InitInstallIdle /\ InitBinderIdle

NextPoll ==
    \/ UserSelects
    \/ UserChangesSettings
    \/ Poll_ExportLooseHKXMapCollision
    \/ Poll_ExportHKXMapCollisionIntoBinder
    \/ Poll_ExportHKXMapCollisionIntoHKXBHD
    \/ Poll_ExportMSBMapCollision
    \/ Poll_BaseImportSingleMSBPart
    \/ Poll_BaseImportAllMSBParts
    \/ Poll_BaseExportMSBParts

SpecPoll == InitPoll /\ [][NextPoll]_vars

C2_SingleEmptyParentOfMeshes ==
    (lastOp.kind = "poll" /\ lastOp.op \in {"ExportLooseHKXMapCollision", "ExportHKXMapCollisionIntoBinder"})
    => (lastOp.result = TRUE
        <=> /\ settings.game = "DARK_SOULS_DSR"
            /\ Len(selected_objects) = 1
            /\ objects[selected_objects[1]].type = "EMPTY"
            /\ \E c \in DOMAIN objects : objects[c].parent = selected_objects[1]
            /\ \A c \in DOMAIN objects : objects[c].parent = selected_objects[1] => objects[c].type = "MESH")

C2_Witness ==
    /\ lastOp.kind = "poll"
    /\ lastOp.op = "ExportLooseHKXMapCollision"
    /\ lastOp.result = TRUE
    /\ selected_objects = <<2>>

----------------------------------------------------------------------------
(* export_hkx_map_collision.py: the export operators *)

\* LoggingOperator.error(msg) reports the error and returns {"CANCELLED"};
\* LoggingOperator.warning(msg) reports the warning and returns nothing.
ErrorReturn == "CANCELLED"
WarningReturn == "None"

\* s.split(sep)[0]: the part of s before the first occurrence of sep.
RECURSIVE SplitFirst(_, _)
SplitFirst(s, sep) ==
    IF Len(s) = 0 \/ s[1] = sep THEN <<>> ELSE <<s[1]>> \o SplitFirst(Tail(s), sep)

\* get_bl_obj_stem(obj): the object name before the first space and without a
\* Blender duplicate suffix (the expression `invoke` uses for the default file name).
get_bl_obj_stem(obj) == SplitFirst(SplitFirst(obj.name, " "), ".")

\* s[:n]
Prefix(s, n) == SubSeq(s, 1, IF Len(s) < n THEN Len(s) ELSE n)

\* s[1:]
Rest(s) == SubSeq(s, 2, Len(s))

\* c.lower() for one character.
Lower(c) ==
    CASE c = "A" -> "a" [] c = "B" -> "b" [] c = "C" -> "c" [] c = "H" -> "h" [] c = "L" -> "l"
      [] OTHER -> c

OtherRes(res) == IF res = "h" THEN "l" ELSE "h"

\* get_mesh_children(operator, bl_parent, get_other_resolution).  The two lists
\* are in scene order; the final sort by natural_keys(name) only reorders them,
\* and an exported HKX keeps its meshes as a set.
get_mesh_children(objs, p, get_other_resolution) ==
    LET target_res == objs[p].name[1]
        other_res == IF get_other_resolution THEN OtherRes(target_res) ELSE <<>>
        children == Children(objs, p)
        Loop[i \in 0..Len(children)] ==
            IF i = 0 THEN [bl_meshes |-> <<>>, other_res_bl_meshes |-> <<>>, reports |-> <<>>]
            ELSE LET acc == Loop[i - 1]
                     child == children[i]
                     child_res == Lower(objs[child].name[1])
                 IN  IF objs[child].type # "MESH"
                         THEN [acc EXCEPT !.reports = Append(@, "WARNING:non-mesh child")]
                     ELSE IF child_res = target_res
                         THEN [acc EXCEPT !.bl_meshes = Append(@, child)]
                     ELSE IF get_other_resolution /\ child_res = other_res
                         THEN [acc EXCEPT !.other_res_bl_meshes = Append(@, child)]
                     ELSE [acc EXCEPT !.reports = Append(@, "WARNING:non-h non-l child")]
    IN  IF get_other_resolution /\ target_res \notin {"h", "l"}
        THEN [exc |-> "HKXMapCollisionExportError", bl_meshes |-> <<>>, other_res_bl_meshes |-> <<>>,
              other_res |-> <<>>, reports |-> <<>>]
        ELSE [exc |-> "", bl_meshes |-> Loop[Len(children)].bl_meshes,
              other_res_bl_meshes |-> Loop[Len(children)].other_res_bl_meshes,
              other_res |-> IF get_other_resolution THEN <<other_res>> ELSE <<>>,
              reports |-> Loop[Len(children)].reports]

\* HKXMapCollisionExporter.export_hkx_map_collision(bl_meshes, name): the HKX
\* built, or ValueError; a legacy "material_index" property is moved to
\* "Material Index" on the meshes visited before an error.
export_hkx_map_collision(objs, bl_meshes, name) ==
    LET Loop[i \in 0..Len(bl_meshes)] ==
            IF i = 0 THEN [objects |-> objs, exc |-> ""]
            ELSE LET acc == Loop[i - 1]
                     mesh == bl_meshes[i]
                 IN  IF acc.exc # "" THEN acc
                     ELSE [objects |-> [acc.objects EXCEPT ![mesh].legacy_material_index = FALSE],
                           exc |-> IF ~acc.objects[mesh].triangulated THEN "ValueError" ELSE ""]
        r == Loop[Len(bl_meshes)]
    IN  IF bl_meshes = <<>> THEN [exc |-> "ValueError", objects |-> objs, hkx |-> <<>>]
        ELSE IF r.exc # "" THEN [exc |-> r.exc, objects |-> r.objects, hkx |-> <<>>]
        ELSE [exc |-> "", objects |-> r.objects,
              hkx |-> [hkx_name |-> name, meshes |-> Range(bl_meshes)]]

\* export_hkx_to_binder(operator, context, bl_meshes, hkxbhd, hkx_entry_stem, ...):
\* the Binder object and the scene afterwards, and the exception raised.
export_hkx_to_binder(objs, bl_meshes, hkxbhd, hkx_entry_stem, default_entry_path, default_entry_flags, overwrite_existing, map_stem) ==
    LET found == find_binder_hkx_entry(hkxbhd, hkx_entry_stem, default_entry_path, default_entry_flags,
                                       overwrite_existing, map_stem)
        exported == export_hkx_map_collision(objs, bl_meshes, hkx_entry_stem)
    IN  IF found.exc # ""
            THEN [exc |-> "HKXMapCollisionExportError", hkxbhd |-> hkxbhd, objects |-> objs,
                  reports |-> found.reports]
        ELSE IF exported.exc # ""
            THEN [exc |-> "HKXMapCollisionExportError", hkxbhd |-> found.binder, objects |-> exported.objects,
                  reports |-> found.reports]
        ELSE [exc |-> "", hkxbhd |-> [found.binder EXCEPT ![found.entry].data = exported.hkx],
              objects |-> exported.objects, reports |-> found.reports]

\* hkxbhd_path.with_name(f"{other_res}{hkxbhd_path.name[1:]}")
OtherResName(other_res, name) == <<other_res>> \o Rest(name)

\* load_hkxbhds(hkxbhd_path, other_res): Binder.from_path raises for a missing file.
load_hkxbhds(dk, name, other_res) ==
    IF name \notin DOMAIN dk.binders
        THEN [exc |-> "HKXMapCollisionExportError", hkxbhd |-> <<>>, other_res_hkxbhd |-> None]
    ELSE IF other_res = <<>>
        THEN [exc |-> "", hkxbhd |-> dk.binders[name], other_res_hkxbhd |-> None]
    ELSE IF OtherResName(other_res[1], name) \notin DOMAIN dk.binders
        THEN [exc |-> "HKXMapCollisionExportError", hkxbhd |-> <<>>, other_res_hkxbhd |-> None]
    ELSE [exc |-> "", hkxbhd |-> dk.binders[name],
          other_res_hkxbhd |-> dk.binders[OtherResName(other_res[1], name)]]

\* BinaryFile.write(path) / Binder.write(): the file at `name` afterwards.
WriteFile(files, name, content) ==
    [n \in (DOMAIN files) \cup {name} |-> IF n = name THEN content ELSE files[n]]

\* The outcome of an execute(): its return value, its reports, and the scene
\* and disk it leaves.
Outcome(result, reports, objs, dk) == [result |-> result, reports |-> reports, objects |-> objs, disk |-> dk]

\* ExportLooseHKXMapCollision.execute, with self.filepath's file name,
\* self.write_other_resolution and whether the two writes succeed.
ExportLooseHKXMapCollision_execute(objs, sel, dk, hkx_name, write_other_resolution, writeOk, otherWriteOk) ==
    IF sel = <<>> THEN Outcome(ErrorReturn, <<"ERROR:nothing selected">>, objs, dk)
    ELSE IF Len(sel) > 1 THEN Outcome(ErrorReturn, <<"ERROR:more than one selected">>, objs, dk)
    ELSE IF LOOSE_HKX_COLLISION_NAME_RE(hkx_name)     \* `not RE.match(name) is None`: the name matches
        THEN Outcome(WarningReturn, <<"WARNING:name pattern">>, objs, dk)
    ELSE
    LET hkx_parent == sel[1]
        hkx_entry_stem == SplitFirst(hkx_name, ".")
        gmc == get_mesh_children(objs, hkx_parent, write_other_resolution)
        exported == export_hkx_map_collision(objs, gmc.bl_meshes, hkx_entry_stem)
        other_res_hkx_entry_stem == gmc.other_res \o Rest(hkx_entry_stem)
        has_other == gmc.other_res # <<>> /\ gmc.other_res_bl_meshes # <<>>
        other == export_hkx_map_collision(exported.objects, gmc.other_res_bl_meshes, other_res_hkx_entry_stem)
        objs2 == IF has_other THEN other.objects ELSE exported.objects
        reports2 == IF gmc.other_res # <<>> /\ gmc.other_res_bl_meshes = <<>>
                    THEN Append(gmc.reports, "WARNING:no other resolution meshes") ELSE gmc.reports
        dk1 == [dk EXCEPT !.hkx = WriteFile(@, hkx_name, exported.hkx)]
        other_res_hkx_name == gmc.other_res \o Rest(hkx_name)
        dk2 == [dk1 EXCEPT !.hkx = WriteFile(@, other_res_hkx_name, other.hkx)]
    IN  IF gmc.exc # "" THEN Outcome(ErrorReturn, <<"ERROR:children">>, objs, dk)
        ELSE IF exported.exc # ""
            THEN Outcome(ErrorReturn, Append(gmc.reports, "ERROR:export"), exported.objects, dk)
        ELSE IF has_other /\ other.exc # ""
            THEN Outcome(ErrorReturn, Append(gmc.reports, "ERROR:export other"), other.objects, dk)
        ELSE IF ~writeOk
            THEN Outcome(ErrorReturn, Append(reports2, "ERROR:write"), objs2, dk)
        ELSE IF has_other /\ ~otherWriteOk
            THEN Outcome(ErrorReturn, Append(reports2, "ERROR:write other"), objs2, dk1)
        ELSE IF has_other THEN Outcome("FINISHED", reports2, objs2, dk2)
        ELSE Outcome("FINISHED", reports2, objs2, dk1)

\* ExportHKXMapCollisionIntoBinder.execute, with self.filepath's file name, the
\* operator properties and whether the two Binder writes succeed.  An
\* exception that execute() lets escape is the result "raised".
ExportHKXMapCollisionIntoBinder_execute(objs, sel, dk, binder_name, write_other_resolution, overwrite_existing, default_entry_path, writeOk, otherWriteOk) ==
    IF sel = <<>> THEN Outcome(ErrorReturn, <<"ERROR:nothing selected">>, objs, dk)
    ELSE IF Len(sel) > 1 THEN Outcome(ErrorReturn, <<"ERROR:more than one selected">>, objs, dk)
    ELSE
    LET hkx_parent == sel[1]
        hkx_entry_stem == IF objs[hkx_parent].model_file_stem # None
                          THEN objs[hkx_parent].model_file_stem
                          ELSE get_bl_obj_stem(objs[hkx_parent])
        reports0 == IF LOOSE_HKX_COLLISION_NAME_RE(hkx_entry_stem)   \* `not RE.match(stem) is None`: it matches
                    THEN <<"WARNING:name pattern">> ELSE <<>>
        gmc == get_mesh_children(objs, hkx_parent, write_other_resolution)
        loaded == load_hkxbhds(dk, binder_name, gmc.other_res)
        e1 == export_hkx_to_binder(objs, gmc.bl_meshes, loaded.hkxbhd, hkx_entry_stem, default_entry_path,
                                   DefaultEntryFlags, overwrite_existing, <<>>)
        other_res_hkx_entry_stem == gmc.other_res \o Rest(hkx_entry_stem)
        e2 == export_hkx_to_binder(e1.objects, gmc.other_res_bl_meshes, loaded.other_res_hkxbhd,
                                   other_res_hkx_entry_stem, default_entry_path, DefaultEntryFlags,
                                   overwrite_existing, <<>>)
        has_other == gmc.other_res # <<>>
        objs2 == IF has_other THEN e2.objects ELSE e1.objects
        reports1 == reports0 \o gmc.reports \o e1.reports
        reports2 == IF has_other THEN reports1 \o e2.reports ELSE reports1
        dk1 == [dk EXCEPT !.binders = WriteFile(@, binder_name, e1.hkxbhd)]
        dk2 == [dk1 EXCEPT !.binders = WriteFile(@, OtherResName(gmc.other_res[1], binder_name), e2.hkxbhd)]
    IN  IF gmc.exc # "" THEN Outcome("raised", reports0, objs, dk)
        ELSE IF loaded.exc # "" THEN Outcome("raised", reports0 \o gmc.reports, objs, dk)
        ELSE IF e1.exc # ""
            THEN Outcome(ErrorReturn, Append(reports1, "ERROR:export to binder"), e1.objects, dk)
        ELSE IF has_other /\ e2.exc # ""
            THEN Outcome(ErrorReturn, Append(reports2, "ERROR:export to binder"), e2.objects, dk)
        ELSE IF ~writeOk
            THEN Outcome(ErrorReturn, Append(reports2, "ERROR:write binder"), objs2, dk)
        ELSE IF has_other /\ ~otherWriteOk
            THEN Outcome(ErrorReturn, Append(reports2, "ERROR:write binder"), objs2, dk1)
        ELSE IF has_other THEN Outcome("FINISHED", reports2, objs2, dk2)
        ELSE Outcome("FINISHED", reports2, objs2, dk1)

\* f"{r}{map_stem[1:]}.hkxbhd" and f"{r}{map_stem[1:]}.hkxbdt"
HkxbhdName(r, map_stem) == <<r>> \o Rest(map_stem) \o <<".", "h", "k", "x", "b", "h", "d">>
HkxbdtName(r, map_stem) == <<r>> \o Rest(map_stem) \o <<".", "h", "k", "x", "b", "d", "t">>

EntryPath(map_stem, stem) == FormatPath(PathTemplateMap, map_stem, stem)

\* The HKXBHDs of map m10_00_00_00 on disk.
InitialHkxbhds ==
    [n \in {HkxbhdName("h", Map_m10_00_00_00), HkxbhdName("l", Map_m10_00_00_00)} |->
        IF n = HkxbhdName("h", Map_m10_00_00_00)
        THEN <<NewEntry(0, EntryPath(Map_m10_00_00_00, Name_h0500B1A10)),
               NewEntry(1, EntryPath(Map_m10_00_00_00, Name_h0007B0A10))>>
        ELSE <<NewEntry(0, EntryPath(Map_m10_00_00_00, Name_l0500B1A10))>>]

ExportDisk ==
    [InitialDisk EXCEPT !.binders = InitialHkxbhds,
                        !.bdts = {HkxbdtName("h", Map_m10_00_00_00), HkxbdtName("l", Map_m10_00_00_00)}]

\* Bound on the number of execute() calls of the file export operators.
MaxExportRuns == 1

ExportSelections == {<<2>>, <<3>>, <<4>>, <<5>>}

LooseFileNames ==
    {Name_h0500B1A10 \o HkxSuffix, Name_h0500B1A10, Name_l0500B1A10 \o HkxSuffix, Name_foo \o HkxSuffix}

BinderFileNames == {HkxbhdName("h", Map_m10_00_00_00), HkxbhdName("h", Map_m12_01_00_00)}

ExecOp(op, args, out, gmc) ==
    [kind |-> "execute", op |-> op, cfg |-> "", result |-> out.result, reports |-> out.reports,
     args |-> args, bl_meshes |-> gmc.bl_meshes, other_res_bl_meshes |-> gmc.other_res_bl_meshes,
     other_res |-> gmc.other_res]

InitExportScene ==
    /\ objects = Scene
    /\ selected_objects \in ExportSelections
    /\ settings = DefaultSettings
    /\ game_enums = [e \in {c.GAME_ENUM_NAME : c \in PartConfigs} |-> ""]
    /\ disk = ExportDisk
    /\ msbs = <<>>
    /\ lastOp = UserOp
    /\ runs = 0

\* The user selects one collision parent.
UserSelectsParent ==
    /\ \E sel \in ExportSelections : selected_objects' = sel
    /\ lastOp' = UserOp
    /\ UNCHANGED <<objects, settings, game_enums, disk, msbs, runs, installVars, binderVars>>

\* Blender runs an operator's execute() only after its poll() returned true.
Execute_ExportLooseHKXMapCollision ==
    /\ runs < MaxExportRuns
    /\ ExportLooseHKXMapCollision_poll(objects, selected_objects, settings)
    /\ \E hkx_name \in LooseFileNames, write_other_resolution \in BOOLEAN,
          writeOk \in BOOLEAN, otherWriteOk \in BOOLEAN :
        \E out \in {ExportLooseHKXMapCollision_execute(objects, selected_objects, disk, hkx_name,
                                                      write_other_resolution, writeOk, otherWriteOk)} :
            /\ objects' = out.objects
            /\ disk' = out.disk
            /\ lastOp' = ExecOp("ExportLooseHKXMapCollision",
                                [name |-> hkx_name, write_other_resolution |-> write_other_resolution,
                                 overwrite_existing |-> TRUE, writeOk |-> writeOk, otherWriteOk |-> otherWriteOk],
                                out, get_mesh_children(objects, selected_objects[1], write_other_resolution))
    /\ runs' = runs + 1
    /\ UNCHANGED <<selected_objects, settings, game_enums, msbs, installVars, binderVars>>

Execute_ExportHKXMapCollisionIntoBinder ==
    /\ runs < MaxExportRuns
    /\ ExportHKXMapCollisionIntoBinder_poll(objects, selected_objects, settings)
    /\ \E binder_name \in BinderFileNames, write_other_resolution \in BOOLEAN, overwrite_existing \in BOOLEAN,
          writeOk \in BOOLEAN, otherWriteOk \in BOOLEAN :
        \E out \in {ExportHKXMapCollisionIntoBinder_execute(objects, selected_objects, disk, binder_name,
                        write_other_resolution, overwrite_existing, PathTemplateMap, writeOk, otherWriteOk)} :
            /\ objects' = out.objects
            /\ disk' = out.disk
            /\ lastOp' = ExecOp("ExportHKXMapCollisionIntoBinder",
                                [name |-> binder_name, write_other_resolution |-> write_other_resolution,
                                 overwrite_existing |-> overwrite_existing, writeOk |-> writeOk,
                                 otherWriteOk |-> otherWriteOk],
                                out, get_mesh_children(objects, selected_objects[1], write_other_resolution))
    /\ runs' = runs + 1
    /\ UNCHANGED <<selected_objects, settings, game_enums, msbs, installVars, binderVars>>

InitExport == InitExportScene /\ InitInstallIdle /\ InitBinderIdle

NextExport ==
    \/ UserSelectsParent
    \/ Execute_ExportLooseHKXMapCollision
    \/ Execute_ExportHKXMapCollisionIntoBinder

SpecExport == InitExport /\ [][NextExport]_vars

FileOps == {"ExportLooseHKXMapCollision", "ExportHKXMapCollisionIntoBinder"}

\* The target resolution of the selected parent was written by the last run:
\* the loose HKX file, or the Binder with the HKX packed into its entry.
TargetWritten ==
    LET name == lastOp.args.name IN
    IF lastOp.op = "ExportLooseHKXMapCollision"
    THEN /\ name \in DOMAIN disk.hkx
         /\ disk.hkx[name].meshes = Range(lastOp.bl_meshes)
    ELSE /\ name \in DOMAIN disk.binders
         /\ \E i \in 1..Len(disk.binders[name]) :
                /\ disk.binders[name][i].data \notin {"old", "empty"}
                /\ disk.binders[name][i].data.meshes = Range(lastOp.bl_meshes)

\* Nothing was written for the other resolution by the last run.
OtherNotWritten ==
    LET other_name == OtherResName(lastOp.other_res[1], lastOp.args.name) IN
    other_name # lastOp.args.name
    => IF lastOp.op = "ExportLooseHKXMapCollision"
       THEN other_name \notin DOMAIN disk.hkx
       ELSE other_name \in DOMAIN disk.binders => disk.binders[other_name] = ExportDisk.binders[other_name]

\* C7: with 'Write Other Resolution' enabled and no child meshes of the other
\* resolution under the selected parent, both file export operators still
\* export and write the target resolution, return {'FINISHED'} and write
\* nothing for the other resolution (given triangulated target meshes, files
\* that exist and can be written, and a run that was not ended by the name check).
C7_OtherResolutionIsOptional ==
    (/\ lastOp.kind = "execute"
     /\ lastOp.op \in FileOps
     /\ lastOp.args.write_other_resolution
     /\ lastOp.other_res # <<>>
     /\ lastOp.other_res_bl_meshes = <<>>
     /\ lastOp.bl_meshes # <<>>
     /\ \A i \in 1..Len(lastOp.bl_meshes) : Scene[lastOp.bl_meshes[i]].triangulated
     /\ lastOp.args.writeOk /\ lastOp.args.otherWriteOk /\ lastOp.args.overwrite_existing
     /\ lastOp.op = "ExportHKXMapCollisionIntoBinder"
            => {lastOp.args.name, OtherResName(lastOp.other_res[1], lastOp.args.name)}
                   \subseteq DOMAIN ExportDisk.binders
     /\ lastOp.result # WarningReturn)
    => /\ lastOp.result = "FINISHED"
       /\ TargetWritten
       /\ OtherNotWritten

\* The game-readable model name pattern 'h......A..' or 'l......A..'.
IsLooseCollisionName(s) ==
    /\ Len(s) = 10
    /\ s[1] = "h" \/ s[1] = "l"
    /\ \A i \in 2..7 : s[i] \in WordChars
    /\ s[8] = "A"
    /\ s[9] \in Digits /\ s[10] \in Digits

\* The name the last run checked against the pattern: the chosen file name, or
\* the HKX model stem of the selected parent.
CheckedName ==
    IF lastOp.op = "ExportLooseHKXMapCollision" THEN lastOp.args.name
    ELSE IF Scene[selected_objects[1]].model_file_stem # None THEN Scene[selected_objects[1]].model_file_stem
    ELSE get_bl_obj_stem(Scene[selected_objects[1]])

\* C8: the file export operators emit the name-pattern warning exactly when
\* the checked name does not match LOOSE_HKX_COLLISION_NAME_RE.
C8_WarningIffNameMismatch ==
    (lastOp.kind = "execute" /\ lastOp.op \in FileOps)
    => ("WARNING:name pattern" \in Range(lastOp.reports) <=> ~IsLooseCollisionName(CheckedName))

----------------------------------------------------------------------------
(* export_hkx_map_collision.py: the map export operators *)

\* MAP_STEM_RE: a map stem 'mAA_BB_CC_DD'.
MAP_STEM_RE(s) ==
    /\ Len(s) = 12
    /\ s[1] = "m"
    /\ \A i \in {2, 3, 5, 6, 8, 9, 11, 12} : s[i] \in Digits
    /\ \A i \in {4, 7, 10} : s[i] = "_"

\* settings.get_oldest_map_stem_version(map_stem): the map stem with its
\* version digits reset (HKXBHDs live in the oldest version of a map).
get_oldest_map_stem_version(map_stem) == SubSeq(map_stem, 1, 10) \o <<"0", "0">>

\* settings.get_relative_msb_path(map_stem).stem: the MSB of the latest
\* version of the map; the maps of the scene have a single version.
get_relative_msb_stem(map_stem) == map_stem

\* MSBModel.get_model_file_stem(map_stem): the model name with the area suffix
\* of the map, f"{name}A{map_stem[1:3]}".
get_model_file_stem(model_name, map_stem) == model_name \o <<"A">> \o SubSeq(map_stem, 2, 3)

\* MSBModel.set_name_from_model_file_stem(stem): the model name is the file
\* stem without its 'A##' area suffix.
NameFromModelFileStem(stem) == Prefix(stem, 7)

\* Lines 600-606 with the stem test ignoring `prefer_new_model_file_stem`.
ResolveEntryStem_IgnoresPreference(prop, prefer_new_model_file_stem, model_name, map_stem) ==
    IF prop = None \/ prop = <<>>
    THEN [hkx_entry_stem |-> get_model_file_stem(model_name, map_stem), model_name |-> model_name]
    ELSE [hkx_entry_stem |-> prop, model_name |-> NameFromModelFileStem(prop)]

\* Lines 600-606 of ExportMSBMapCollision.execute: the HKX entry stem and the
\* MSB part's model name afterwards.
ResolveEntryStem(prop, prefer_new_model_file_stem, model_name, map_stem) ==
    LET hkx_entry_stem == IF prefer_new_model_file_stem THEN prop ELSE None IN
    IF hkx_entry_stem = None \/ hkx_entry_stem = <<>>
    THEN [hkx_entry_stem |-> get_model_file_stem(model_name, map_stem), model_name |-> model_name]
    ELSE [hkx_entry_stem |-> hkx_entry_stem, model_name |-> NameFromModelFileStem(hkx_entry_stem)]

\* The return value with "FINISHED" unless a "CANCELLED" was reported.
FinalResult_FinishedUnlessCancelled(return_strings) ==
    IF "CANCELLED" \in return_strings THEN "CANCELLED" ELSE "FINISHED"

\* return {"FINISHED"} if "FINISHED" in return_strings else {"CANCELLED"}
FinalResult(return_strings) ==
    IF "FINISHED" \in return_strings THEN "FINISHED" ELSE "CANCELLED"

\* The state of an execute() loop over the selected objects: the scene, the
\* opened HKXBHDs (by file name, which holds the resolution and the map), the
\* MSB objects, the MSBs opened by this run, the reports, the value returned
\* from inside the loop ("" while none) and, per exported MSB part, how its
\* HKX entry stem was chosen.
LoopStart(objs, ms) ==
    [objects |-> objs, opened |-> <<>>, msbs |-> ms, opened_msbs |-> {}, edited |-> {},
     reports |-> <<>>, ret |-> "", processed |-> <<>>]

Report(acc, msg) == [acc EXCEPT !.reports = Append(@, msg)]

ReturnError(acc, msg) == [acc EXCEPT !.reports = Append(@, msg), !.ret = ErrorReturn]

\* The body of `for r in "hl"`: open the HKXBHD of resolution r (the .hkxbhd
\* and .hkxbdt must exist) and export the meshes into it.
ExportResolution(acc, r, meshes, hkx_entry_stem, map_stem, dk) ==
    LET bhd == HkxbhdName(r, map_stem)
        is_open == bhd \in DOMAIN acc.opened
        hkxbhd == IF is_open THEN acc.opened[bhd] ELSE dk.binders[bhd]
        e == export_hkx_to_binder(acc.objects, meshes, hkxbhd, hkx_entry_stem, PathTemplateMap,
                                  DefaultEntryFlags, TRUE, map_stem)
    IN  IF acc.ret # "" \/ meshes = <<>> THEN acc
        ELSE IF ~is_open /\ bhd \notin DOMAIN dk.binders THEN ReturnError(acc, "ERROR:no HKXBHD")
        ELSE IF ~is_open /\ HkxbdtName(r, map_stem) \notin dk.bdts THEN ReturnError(acc, "ERROR:no HKXBDT")
        ELSE [acc EXCEPT !.opened = WriteFile(@, bhd, e.hkxbhd),
                         !.objects = e.objects,
                         !.reports = @ \o e.reports
                                       \o (IF e.exc # "" THEN <<"ERROR:export to binder">> ELSE <<>>)]

\* The `if res == "h": ... else: ...` swap and the `for r in "hl"` loop.
ExportBothResolutions(acc, p, hkx_entry_stem, map_stem, dk) ==
    LET gmc == get_mesh_children(acc.objects, p, TRUE)
        res == acc.objects[p].name[1]
        h_meshes == IF res = "h" THEN gmc.bl_meshes ELSE gmc.other_res_bl_meshes
        l_meshes == IF res = "h" THEN gmc.other_res_bl_meshes ELSE gmc.bl_meshes
        acc1 == [acc EXCEPT !.reports = @ \o gmc.reports]
    IN  ExportResolution(ExportResolution(acc1, "h", h_meshes, hkx_entry_stem, map_stem, dk),
                         "l", l_meshes, hkx_entry_stem, map_stem, dk)

\* One iteration of the loop of ExportHKXMapCollisionIntoHKXBHD.execute.
HKXBHD_Iteration(acc, p, st, dk) ==
    LET o == acc.objects[p]
        map_stem == IF st.detect_map_from_parent
                    THEN SplitFirst(acc.objects[o.parent].name, " ")
                    ELSE st.map_stem
        hkx_entry_stem == IF o.model_file_stem # None THEN o.model_file_stem ELSE Prefix(o.name, 10)
        acc1 == IF ~NUMERIC_HKX_COLLISION_NAME_RE(hkx_entry_stem)
                    THEN Report(acc, "WARNING:not standard name")
                ELSE IF MapStemFromName(hkx_entry_stem) # map_stem
                    THEN Report(acc, "WARNING:map mismatch")
                ELSE acc
    IN  IF acc.ret # "" THEN acc
        ELSE IF o.name[1] \notin {"h", "l"} THEN Report(acc, "ERROR:must start with h or l")
        ELSE IF st.detect_map_from_parent /\ o.parent = NoObject THEN ReturnError(acc, "ERROR:no parent")
        ELSE IF st.detect_map_from_parent /\ ~MAP_STEM_RE(map_stem) THEN ReturnError(acc, "ERROR:map stem")
        ELSE IF ~LOOSE_HKX_COLLISION_NAME_RE(hkx_entry_stem) THEN ReturnError(acc, "ERROR:name pattern")
        ELSE ExportBothResolutions(acc1, p, hkx_entry_stem, map_stem, dk)

RECURSIVE HKXBHD_Loop(_, _, _, _, _)
HKXBHD_Loop(acc, sel, i, st, dk) ==
    IF i > Len(sel) THEN acc
    ELSE HKXBHD_Loop(HKXBHD_Iteration(acc, sel[i], st, dk), sel, i + 1, st, dk)

\* One iteration of the loop of ExportMSBMapCollision.execute.
MSB_Iteration(acc, p, st, dk, prefer_new_model_file_stem) ==
    LET o == acc.objects[p]
        parent_stem == SplitFirst(acc.objects[o.parent].name, " ")
        map_stem == IF st.detect_map_from_parent
                    THEN get_oldest_map_stem_version(parent_stem)
                    ELSE get_oldest_map_stem_version(st.map_stem)
        msb_stem == get_relative_msb_stem(map_stem)
        collision_part_name == get_bl_obj_stem(o)
        is_open == msb_stem \in acc.opened_msbs
        msb == IF msb_stem \in DOMAIN acc.msbs THEN acc.msbs[msb_stem] ELSE dk.msbs[msb_stem]
        msb_part == msb.collisions[collision_part_name]
        resolved == ResolveEntryStem(o.model_file_stem, prefer_new_model_file_stem, msb_part.model_name, map_stem)
        new_part == [model_name |-> resolved.model_name, transform |-> "blender"]
        new_msb == [msb EXCEPT !.collisions[collision_part_name] = new_part]
        opened_acc == [acc EXCEPT !.opened_msbs = @ \cup {msb_stem},
                                  !.msbs = WriteFile(@, msb_stem, msb)]
        acc1 == [opened_acc EXCEPT
                    !.msbs = WriteFile(@, msb_stem, new_msb),
                    !.edited = @ \cup {<<msb_stem, collision_part_name>>},
                    !.reports = @ \o (IF <<msb_stem, collision_part_name>> \in acc.edited
                                      THEN <<"WARNING:exported more than once">> ELSE <<>>)
                                  \o (IF o.model_file_stem # None /\ o.model_file_stem # resolved.hkx_entry_stem
                                      THEN <<"WARNING:model file stem differs">> ELSE <<>>),
                    !.processed = Append(@, [obj |-> p, map_stem |-> map_stem, prop |-> o.model_file_stem,
                                             prefer |-> prefer_new_model_file_stem,
                                             hkx_entry_stem |-> resolved.hkx_entry_stem,
                                             model_before |-> msb_part.model_name,
                                             model_after |-> resolved.model_name])]
    IN  IF acc.ret # "" THEN acc
        ELSE IF o.name[1] \notin {"h", "l"} THEN Report(acc, "ERROR:must start with h or l")
        ELSE IF st.detect_map_from_parent /\ o.parent = NoObject THEN ReturnError(acc, "ERROR:no parent")
        ELSE IF st.detect_map_from_parent /\ ~MAP_STEM_RE(parent_stem) THEN ReturnError(acc, "ERROR:map stem")
        ELSE IF ~is_open /\ msb_stem \notin DOMAIN dk.msbs THEN Report(acc, "ERROR:no MSB")
        ELSE IF collision_part_name \notin DOMAIN msb.collisions THEN Report(opened_acc, "ERROR:no part")
        ELSE IF msb_part.model_name = <<>> THEN Report(opened_acc, "ERROR:no model name")
        ELSE ExportBothResolutions(acc1, p, resolved.hkx_entry_stem, map_stem, dk)

RECURSIVE MSB_Loop(_, _, _, _, _, _)
MSB_Loop(acc, sel, i, st, dk, prefer) ==
    IF i > Len(sel) THEN acc
    ELSE MSB_Loop(MSB_Iteration(acc, sel[i], st, dk, prefer), sel, i + 1, st, dk, prefer)

\* settings.export_file(operator, file, relative_path) for each opened file whose
\* export reported "FINISHED": the file on disk afterwards.
ExportFiles(files, opened, export_results) ==
    [n \in DOMAIN files |->
        IF n \in DOMAIN export_results /\ export_results[n] = "FINISHED" THEN opened[n] ELSE files[n]]

\* The strings the export_file calls of the opened HKXBHDs add to `return_strings`.
ReturnStrings(export_results) == {export_results[n] : n \in DOMAIN export_results}

\* Bound on the number of execute() calls of the map export operators.
MaxMapRuns == 1

MapSelections == {<<2>>, <<3>>, <<2, 3>>, <<4>>, <<4, 2>>, <<5>>, <<8, 3>>, <<7>>}

\* The map directory with and without the low-resolution HKXBHD.
MapDisks ==
    {ExportDisk,
     [ExportDisk EXCEPT !.binders = [n \in {HkxbhdName("h", Map_m10_00_00_00)} |-> InitialHkxbhds[n]]]}

ExportResults == {"FINISHED", "CANCELLED"}

MapOp(op, prefer, poll, out, export_results, msb_results) ==
    [kind |-> "execute", op |-> op, cfg |-> "", prefer_new_model_file_stem |-> prefer, poll |-> poll,
     result |-> IF ~poll THEN ErrorReturn
                ELSE IF out.ret # "" THEN out.ret
                ELSE FinalResult(ReturnStrings(export_results)),
     reports |-> IF poll THEN out.reports ELSE <<"ERROR:must select a parent">>,
     reached_write |-> poll /\ out.ret = "",
     export_results |-> export_results, msb_results |-> msb_results,
     processed |-> out.processed]

InitMapScene ==
    /\ objects = Scene
    /\ selected_objects \in MapSelections
    /\ settings \in {[DefaultSettings EXCEPT !.detect_map_from_parent = d] : d \in BOOLEAN}
    /\ game_enums = [e \in {c.GAME_ENUM_NAME : c \in PartConfigs} |-> ""]
    /\ disk \in MapDisks
    /\ msbs = <<>>
    /\ lastOp = UserOp
    /\ runs = 0

\* What an execute() that got past its poll() leaves: the scene, the cached
\* MSBs, the saved settings and the files whose export finished.
MapEffects(out, export_results, msb_results) ==
    /\ objects' = out.objects
    /\ msbs' = out.msbs
    /\ disk' = [disk EXCEPT !.settings_saved = TRUE,
                            !.binders = ExportFiles(@, out.opened, export_results),
                            !.msbs = ExportFiles(@, out.msbs, msb_results)]

\* ExportHKXMapCollisionIntoHKXBHD.execute
Execute_ExportHKXMapCollisionIntoHKXBHD ==
    /\ runs < MaxMapRuns
    /\ runs' = runs + 1
    /\ UNCHANGED <<selected_objects, settings, game_enums, installVars, binderVars>>
    /\ IF ~ExportHKXMapCollisionIntoHKXBHD_poll(objects, selected_objects, settings)
       THEN /\ lastOp' = MapOp("ExportHKXMapCollisionIntoHKXBHD", FALSE, FALSE, LoopStart(objects, msbs),
                               <<>>, <<>>)
            /\ UNCHANGED <<objects, msbs, disk>>
       ELSE \E out \in {HKXBHD_Loop(LoopStart(objects, msbs), selected_objects, 1, settings, disk)} :
            \E export_results \in [IF out.ret = "" THEN DOMAIN out.opened ELSE {} -> ExportResults] :
                /\ MapEffects(out, export_results, <<>>)
                /\ lastOp' = MapOp("ExportHKXMapCollisionIntoHKXBHD", FALSE, TRUE, out, export_results, <<>>)

\* ExportMSBMapCollision.execute
Execute_ExportMSBMapCollision ==
    /\ runs < MaxMapRuns
    /\ runs' = runs + 1
    /\ UNCHANGED <<selected_objects, settings, game_enums, installVars, binderVars>>
    /\ \E prefer_new_model_file_stem \in BOOLEAN :
       IF ~ExportMSBMapCollision_poll(objects, selected_objects, settings)
       THEN /\ lastOp' = MapOp("ExportMSBMapCollision", prefer_new_model_file_stem, FALSE,
                               LoopStart(objects, msbs), <<>>, <<>>)
            /\ UNCHANGED <<objects, msbs, disk>>
       ELSE \E out \in {MSB_Loop(LoopStart(objects, msbs), selected_objects, 1, settings, disk,
                                 prefer_new_model_file_stem)} :
            \E export_results \in [IF out.ret = "" THEN DOMAIN out.opened ELSE {} -> ExportResults],
               msb_results \in [IF out.ret = "" THEN out.opened_msbs ELSE {} -> ExportResults] :
                /\ MapEffects(out, export_results, msb_results)
                /\ lastOp' = MapOp("ExportMSBMapCollision", prefer_new_model_file_stem, TRUE, out,
                                   export_results, msb_results)

InitMap == InitMapScene /\ InitInstallIdle /\ InitBinderIdle

NextMap ==
    \/ Execute_ExportHKXMapCollisionIntoHKXBHD
    \/ Execute_ExportMSBMapCollision

SpecMap == InitMap /\ [][NextMap]_vars

MapOps == {"ExportHKXMapCollisionIntoHKXBHD", "ExportMSBMapCollision"}

\* The 'Model File Stem' property is set and not empty.
HasModelFileStem(pr) == pr.prop # None /\ pr.prop # <<>>

\* The model name of part `name` in the cached MSB of the map.
CachedModelName(map_stem, obj) ==
    msbs[get_relative_msb_stem(map_stem)].collisions[get_bl_obj_stem(objects[obj])].model_name

\* C9: for every MSB part exported by ExportMSBMapCollision: with 'Prefer New
\* Model File Stem' enabled and a non-empty 'Model File Stem' on the parent,
\* that stem is the HKX entry stem and the MSB model name is set from it;
\* otherwise the HKX entry stem comes from the MSB model name, which is kept.
C9_PreferNewModelFileStem ==
    (lastOp.kind = "execute" /\ lastOp.op = "ExportMSBMapCollision")
    => \A i \in 1..Len(lastOp.processed) :
        LET pr == lastOp.processed[i] IN
        /\ (lastOp.prefer_new_model_file_stem /\ HasModelFileStem(pr))
            => /\ pr.hkx_entry_stem = pr.prop
               /\ pr.model_after = Prefix(pr.prop, 7)
               /\ CachedModelName(pr.map_stem, pr.obj) = Prefix(pr.prop, 7)
        /\ ~(lastOp.prefer_new_model_file_stem /\ HasModelFileStem(pr))
            => /\ pr.hkx_entry_stem = pr.model_before \o <<"A">> \o SubSeq(pr.map_stem, 2, 3)
               /\ pr.model_after = pr.model_before
               /\ CachedModelName(pr.map_stem, pr.obj) = pr.model_before

\* A run with the option enabled renamed the model of a part from the parent's
\* 'Model File Stem'.
C9_Witness ==
    /\ lastOp.kind = "execute" /\ lastOp.op = "ExportMSBMapCollision"
    /\ lastOp.prefer_new_model_file_stem
    /\ \E i \in 1..Len(lastOp.processed) :
        /\ HasModelFileStem(lastOp.processed[i])
        /\ lastOp.processed[i].model_after # lastOp.processed[i].model_before
        /\ lastOp.processed[i].hkx_entry_stem = Name_h0501B1A10

\* C10: a map export run that reaches its final write phase returns
\* {'FINISHED'} iff some HKXBHD export_file call reported 'FINISHED', and
\* {'CANCELLED'} otherwise, as when no HKXBHD was opened.
C10_FinishedIffSomeHkxbhdExported ==
    (lastOp.kind = "execute" /\ lastOp.op \in MapOps /\ lastOp.reached_write)
    => /\ lastOp.result = "FINISHED"
            <=> \E n \in DOMAIN lastOp.export_results : lastOp.export_results[n] = "FINISHED"
       /\ lastOp.result # "FINISHED" => lastOp.result = "CANCELLED"
       /\ DOMAIN lastOp.export_results = {} => lastOp.result = "CANCELLED"

\* A run wrote two HKXBHDs, one export failing and one finishing.
C10_Witness ==
    /\ lastOp.kind = "execute" /\ lastOp.op \in MapOps /\ lastOp.reached_write
    /\ \E n \in DOMAIN lastOp.export_results : lastOp.export_results[n] = "FINISHED"
    /\ \E n \in DOMAIN lastOp.export_results : lastOp.export_results[n] = "CANCELLED"
    /\ lastOp.result = "FINISHED"

====
